---- MODULE Spec2Model ----
(***************************************************************************)
(* VLFMonitoringSystem (src/src/core/vlf_system.py) with the storage it    *)
(* writes to (src/src/data/realtime_storage.py).                           *)
(*                                                                         *)
(* Threads of the program:                                                 *)
(*   - the control thread, which calls register_*_callback,                *)
(*     start_monitoring and stop_monitoring one after the other;           *)
(*   - the audio driver's thread, which runs _audio_callback once per      *)
(*     captured frame while the callback stream is running;                *)
(*   - one thread per threading.Thread started by start_monitoring, each   *)
(*     running _processing_worker;                                         *)
(*   - any observer calling get_system_status.                             *)
(* Frames are tagged with their capture sequence number.                   *)
(***************************************************************************)
EXTENDS Integers, Sequences, FiniteSets, TLC

\* ---------------------------------------------------------------- bounds
\* _processing_worker threads alive at the same time
MaxThreads == 2
\* frames captured with stations configured
MaxFrames == 2
\* frames captured in the configuration without stations
MaxBurst == 11
\* registered callbacks, of both kinds together
MaxCallbacks == 2
\* stations of a configuration given to VLFProcessor
MaxStations == 7
\* amplitudes fed to VLFAudioProcessor.update_baseline for a station
MaxSamples == 11
\* samples of a buffer given to process_audio_buffer
MaxBuffer == 2
\* threads that write to the measurement database
MaxWriters == 2
\* store_batch and store_measurement calls made in all
MaxCalls == 2
\* measurements of one batch
MaxBatch == 2
\* update_baseline calls made on their own
MaxUpdates == 3
\* chunks the workers take through update_baseline and detect_anomalies
MaxChunks == 3

\* ---------------------------------------------------- program constants
\* queue.Queue(maxsize=10)
QueueMaxSize == 10
\* "storage_batch_size": 10 of the default configuration
storage_batch_size == 10

\* audio_config.get('sample_rate', 11025)
DefaultSampleRate == 11025

\* len(self.baseline_history[station]) >= 10
BaselineMinSamples == 10

\* self.baseline_samples = 300
baseline_samples == 300

\* the stations of the configuration that got a filter
Stations == {"NAA"}

VARIABLES
    is_monitoring,      \* self.is_monitoring
    stream,             \* self.stream: "None" or "open" (a running callback stream)
    audio_queue,        \* self.audio_queue, oldest frame first
    processing_thread,  \* self.processing_thread: 0 (None), a thread id, or
                        \* -1 (a Thread object that was never started)
    data_callbacks,     \* self.data_callbacks
    anomaly_callbacks,  \* self.anomaly_callbacks
    filters,            \* self.vlf_processor.filters: stations with a filter
    baselines,          \* self.vlf_processor.baselines: stations with a baseline
    db,                 \* rows of vlf_measurements, as <<frame, station>>
    leaked,             \* a stream of self.audio is open and nothing refers to it
    pc,                 \* control thread: position in start/stop_monitoring
    rollback,           \* stop_monitoring is running in start_monitoring's handler
    result,             \* the last call that returned and its value
    worker,             \* thread id -> position and frame of _processing_worker
    cb_pc,              \* driver thread: position in _audio_callback
    cb_frame,           \* frame the running _audio_callback was given
    next_frame,         \* frames captured so far
    trial_ok,           \* the trial read of the current start call succeeded
    seen_monitoring,    \* an observer saw is_monitoring true during this start
    handed,             \* rows given to store_measurement so far
    write_failed,       \* rows whose insert raised
    was_stopped,        \* a stop_monitoring call of the control thread has returned
    iter_log,           \* what the last worker iteration did, in order
    last_processed,     \* the latest captured frame given to process_chunk so far
    held_over,          \* frames a worker still held when stop_monitoring returned
    cb_raised,          \* a callback raised during the last worker iteration
    run_pushes,         \* callbacks completed since the last consumer pop
    cb_inserted,        \* the last completed callback left its frame in the queue
    sample_rate,        \* self.vlf_processor.sample_rate
    station_frequencies, \* self.vlf_processor.station_frequencies, in dict order
    test_mode,          \* self.vlf_processor.test_mode
    mode_pc,            \* where a caller of set_real_vlf_mode stands
    vlf_bands,          \* self.vlf_processor.vlf_bands, in dict order
    chunk,              \* the last chunk given to process_chunk on its own
    vlf_signals,        \* the stations of the mapping that call returned
    vlf_frequency,      \* the frequency field of each Signal of it, in Hz
    baseline_values,    \* VLFProcessor.baselines: station -> level, a fraction
    detect_worker,      \* per worker: where it is between update_baseline and
                        \* detect_anomalies, its chunk's amplitudes, and the
                        \* baselines it found
    detection,          \* the last detect_anomalies call: what it compared
    chunks,             \* chunks taken so far
    stations,           \* VLFAudioProcessor.stations
    baseline_history,   \* VLFAudioProcessor.baseline_history
    audio_baselines,    \* VLFAudioProcessor.baselines
    fed,                \* the finite amplitudes given to update_baseline, by station
    updates,            \* direct calls of update_baseline made so far
    updated,            \* the station and the amplitude of the last such call
    nan_warning_logged, \* VLFAudioProcessor has the attribute _nan_warning_logged
    sanitize_warnings,  \* times the warning of line 96 was logged, up to 2
    corrupted_buffers,  \* buffers with a non-finite sample processed, up to 2
    audio_buffer,       \* the last buffer given to process_audio_buffer
    audio_signals,      \* the mapping that call returned: station -> amplitude
    checked,            \* the Signal given to check_anomalies if the last call was one
    reported,           \* the kinds of anomaly that call reported
    measurements,       \* the committed rows of table vlf_measurements
    pending,            \* the rows of the open write transaction
    storage_lock,       \* RealtimeStorage._lock of each instance: its holder or 0
    db_writer,          \* the thread holding SQLite's write lock, or 0
    writers,            \* each writing thread's position in its call
    calls,              \* the store calls made so far and how each ended
    recent_data         \* the last get_recent_data call and what it returned

vars == <<is_monitoring, stream, audio_queue, processing_thread, data_callbacks,
          anomaly_callbacks, filters, baselines, db, leaked, pc, rollback,
          result, worker, cb_pc, cb_frame, next_frame, trial_ok,
          seen_monitoring, handed, write_failed, was_stopped, iter_log,
          last_processed, held_over,
          cb_raised, run_pushes, cb_inserted, sample_rate,
          station_frequencies, test_mode, mode_pc, vlf_bands, chunk,
          vlf_signals, vlf_frequency, baseline_values, detect_worker, detection,
          chunks,
          stations, baseline_history, audio_baselines, fed, updates, updated,
          nan_warning_logged,
          sanitize_warnings, corrupted_buffers, audio_buffer, audio_signals,
          checked, reported, measurements, pending, storage_lock, db_writer,
          writers, calls, recent_data>>

ctl_vars == <<is_monitoring, stream, processing_thread, leaked, pc,
              rollback, result, trial_ok, was_stopped>>
cb_vars == <<cb_pc, cb_frame, next_frame, cb_inserted>>
store_vars == <<baselines, db, handed, write_failed, iter_log, cb_raised,
                last_processed, held_over>>
reg_vars == <<data_callbacks, anomaly_callbacks, filters>>
\* the state of VLFProcessor besides filters and baselines
vp_vars == <<sample_rate, station_frequencies, test_mode, mode_pc, vlf_bands>>
\* the state of VLFAudioProcessor and of the calls made to it
ap_vars == <<stations, baseline_history, audio_baselines, fed, updates,
             updated, nan_warning_logged,
             sanitize_warnings, corrupted_buffers, audio_buffer, audio_signals,
             checked, reported>>
\* the state of the measurement database and of the calls to RealtimeStorage
st_vars == <<measurements, pending, storage_lock, db_writer, writers, calls,
             recent_data>>
\* the state touched only when a component is exercised on its own
\* VLFProcessor's baselines with their values, and the workers using them
det_vars == <<baseline_values, detect_worker, detection, chunks>>
unit_vars == <<vp_vars, chunk, vlf_signals, vlf_frequency, det_vars, ap_vars, st_vars>>
\* the state of VLFMonitoringSystem and its threads
system_vars == <<is_monitoring, stream, audio_queue, processing_thread,
                 data_callbacks, anomaly_callbacks, baselines, db, leaked, pc,
                 rollback, result, worker, cb_pc, cb_frame, next_frame,
                 trial_ok, seen_monitoring, handed, write_failed, was_stopped,
                 iter_log, last_processed, held_over, cb_raised, run_pushes,
                 cb_inserted>>

Threads == 1..MaxThreads

\* frames this configuration may capture
FrameLimit == IF station_frequencies = <<>> THEN MaxBurst ELSE MaxFrames

\* self.processing_thread.is_alive()
is_alive == processing_thread \in Threads /\ worker[processing_thread].pc # "none"

\* worker threads this configuration may have at once: the burst that fills
\* the queue is explored with one
ThreadLimit == IF station_frequencies = <<>> THEN 1 ELSE MaxThreads

\* the thread id a new threading.Thread gets
Min(S) == CHOOSE x \in S : \A y \in S : x <= y
FreeThreads == {t \in 1..ThreadLimit : worker[t].pc = "none"}

\* ---------------------------------------------------------- VLFProcessor
MinOf(a, b) == IF a <= b THEN a ELSE b

\* station codes with frequency and bandwidth in Hz, as a station_frequencies
\* mapping lists them
StationTable ==
    <<[station |-> "NAA", freq |-> 24000, bandwidth |-> 50],
      [station |-> "NPM", freq |-> 21400, bandwidth |-> 50],
      [station |-> "NLK", freq |-> 24800, bandwidth |-> 50],
      [station |-> "DHO38", freq |-> 23400, bandwidth |-> 50],
      [station |-> "GQD", freq |-> 22100, bandwidth |-> 40],
      [station |-> "ICV", freq |-> 20270, bandwidth |-> 50],
      [station |-> "NWC", freq |-> 19800, bandwidth |-> 50],
      [station |-> "JJI", freq |-> 47500, bandwidth |-> 40]>>

\* the station_frequencies mapping with the first n stations
Configuration(n) == SubSeq(StationTable, 1, n)

\* sample rates given to VLFProcessor
SampleRates == {3000, DefaultSampleRate, 55000, 300000}

\* line 52
audio_freqs == <<300, 600, 900, 1200, 1500, 1800>>

\* _create_test_bands: the i-th station gets audio_freqs[i] +- 25 Hz; stations
\* beyond len(audio_freqs) get no band
create_test_bands(sf) ==
    [i \in 1..MinOf(Len(sf), Len(audio_freqs)) |->
        [station |-> sf[i].station,
         low |-> audio_freqs[i] - 50 \div 2,
         high |-> audio_freqs[i] + 50 \div 2]]

\* _create_vlf_bands: no band at all below 60 kHz, else freq +- bandwidth/2
create_vlf_bands(sf, rate) ==
    IF rate < 60000 THEN <<>>
    ELSE [i \in 1..Len(sf) |->
            [station |-> sf[i].station,
             low |-> sf[i].freq - sf[i].bandwidth \div 2,
             high |-> sf[i].freq + sf[i].bandwidth \div 2]]

\* line 94, 0.01 <= low_norm < high_norm <= 0.99 with low_norm = low/(rate/2)
\* and high_norm = high/(rate/2), in whole numbers
valid_range(low, high, rate) ==
    /\ rate <= 200 * low
    /\ low < high
    /\ 200 * high <= 99 * rate

\* _create_filters: the stations that get a filter
create_filters(bands, rate) ==
    {bands[i].station :
        i \in {j \in DOMAIN bands : valid_range(bands[j].low, bands[j].high, rate)}}

\* the order in which self.filters.items() yields the stations
filter_order(bands, fs) ==
    SelectSeq([i \in DOMAIN bands |-> bands[i].station], LAMBDA st : st \in fs)

\* a variant of lines 118-154 without the try inside the loop: the first
\* station that raises ends the loop in the outer handler
RECURSIVE process_stations_abort(_, _)
process_stations_abort(order, failing) ==
    IF order = <<>> \/ Head(order) \in failing THEN {}
    ELSE {Head(order)} \cup process_stations_abort(Tail(order), failing)

\* lines 118-154: every station with a filter, each inside its own try; the
\* stations that get a Signal
RECURSIVE process_stations(_, _)
process_stations(order, failing) ==
    IF order = <<>> THEN {}
    ELSE (IF Head(order) \in failing THEN {} ELSE {Head(order)})
         \cup process_stations(Tail(order), failing)

\* process_chunk, lines 104-159: the keys of the mapping it returns for a
\* chunk of at least 256 samples or a shorter one
process_chunk_stations(long_enough, order, failing) ==
    IF ~long_enough THEN {} ELSE process_stations(order, failing)

\* the frequencies _find_dominant_frequency finds in a filtered series, in Hz
DominantFreqs == {300, 24010}

\* station_info['freq'] of line 132 with the default of line 131, in Hz
configured_freq(sf, station) ==
    IF \E i \in DOMAIN sf : sf[i].station = station
    THEN sf[CHOOSE i \in DOMAIN sf : sf[i].station = station].freq
    ELSE 20000

\* lines 130-135: the frequency field of a Signal, in Hz: the configured
\* frequency in test mode, else the estimate (dominant_freq / 1000.0 kHz)
display_freq(mode, sf, station, dominant) ==
    IF mode THEN configured_freq(sf, station) ELSE dominant

\* no chunk was processed yet
NoChunk == [long_enough |-> FALSE, failing |-> {}, dominant |-> 0]

\* VLFProcessor.__init__, lines 23-46, without the filters
VLFProcessor_init(sf, rate) ==
    /\ sample_rate = rate
    /\ station_frequencies = sf
    /\ test_mode = TRUE
    /\ mode_pc = "idle"
    /\ vlf_bands = create_test_bands(sf)

\* ------------------------------------------- VLFProcessor: baselines
\* the amplitude of the station's Signal in a chunk
Amplitudes == {0, 1, 100}

\* a level as an exact fraction
Level(n) == [num |-> n, den |-> 1]

SameLevel(x, y) == x.num * y.den = y.num * x.den

\* lines 188-189: alpha * amplitude + (1 - alpha) * baseline, alpha = 0.1
ema(baseline, amplitude) ==
    [num |-> amplitude * baseline.den + 9 * baseline.num, den |-> 10 * baseline.den]

\* update_baseline, lines 180-189: the first amplitude of a station is its
\* baseline, a later one is averaged in
update_baseline_values(bl, signals) ==
    [s \in DOMAIN bl \cup DOMAIN signals |->
        IF s \notin DOMAIN signals THEN bl[s]
        ELSE IF s \notin DOMAIN bl THEN Level(signals[s])
        ELSE ema(bl[s], signals[s])]

\* line 196: self.baselines[station] > 1e-6
above_floor(b) == b.num > 0 /\ (b.num >= b.den \/ 1000000 * b.num > b.den)

\* lines 201, 204: abs(current - baseline) / baseline > 0.5
significant_change(b, current) ==
    LET diff == current * b.den - b.num
    IN  2 * (IF diff < 0 THEN -diff ELSE diff) > b.num

\* detect_anomalies, lines 191-211: the stations reported, with the direction
detect_anomalies(bl, signals) ==
    {<<s, IF signals[s] * bl[s].den > bl[s].num THEN "increase" ELSE "decrease">> :
        s \in {st \in DOMAIN signals :
                 /\ st \in DOMAIN bl
                 /\ above_floor(bl[st])
                 /\ significant_change(bl[st], signals[st])}}

NoDetection == [thread |-> 0, signals |-> <<>>, before |-> <<>>,
                compared |-> <<>>, anomalies |-> {}]

IdleDetectWorker(at) == [pc |-> at, signals |-> <<>>, before |-> <<>>]

\* one worker in its loop, no baseline yet
VLFProcessor_baselines_init ==
    /\ baseline_values = <<>>
    /\ detect_worker = [t \in Threads |-> IdleDetectWorker(IF t = 1 THEN "get" ELSE "none")]
    /\ detection = NoDetection
    /\ chunks = 0

\* ------------------------------------------------------ VLFAudioProcessor
\* A sample or an amplitude is a number (kind "num") or NaN or an infinity.
\* A Signal's amplitude is clamped to 0..1 (line 144).
Num(v) == [kind |-> "num", v |-> v]
NaN == [kind |-> "nan", v |-> 0]
Inf == [kind |-> "inf", v |-> 0]
Samples == {Num(1), NaN, Inf}
isfinite(x) == x.kind = "num"

\* np.nan_to_num(audio_data, nan=0.0, posinf=0.0, neginf=0.0)
nan_to_num(data) == [i \in DOMAIN data |-> IF isfinite(data[i]) THEN data[i] ELSE Num(0)]

\* the sum of values[lo..hi], by halves
RECURSIVE SumRange(_, _, _)
SumRange(values, lo, hi) ==
    IF lo > hi THEN 0
    ELSE IF lo = hi THEN values[lo]
    ELSE LET mid == (lo + hi) \div 2
         IN  SumRange(values, lo, mid) + SumRange(values, mid + 1, hi)

Sum(values) == SumRange(values, 1, Len(values))

\* lines 107-138: window, FFT, band power and its root; one non-finite sample
\* makes every bin of the FFT non-finite
band_amplitude(data) ==
    IF \E i \in DOMAIN data : ~isfinite(data[i]) THEN NaN
    ELSE Num(Sum([i \in DOMAIN data |-> data[i].v]))

\* lines 135-144: a non-finite power or amplitude counts as 0.0, and the
\* amplitude is clamped
Signal_amplitude(raw) == IF isfinite(raw) THEN Num(MinOf(raw.v, 1)) ELSE Num(0)

\* a variant of lines 94-98 that logs the warning and keeps the samples
sanitize_not(data) == data

\* lines 94-98: the samples the analysis works on
sanitize(data) ==
    IF \A i \in DOMAIN data : isfinite(data[i]) THEN data ELSE nan_to_num(data)

\* mean and std of lines 187-188, kept exact: mean = total / count and
\* std^2 = squares / count - mean^2
Statistics(values) ==
    [count |-> Len(values),
     total |-> Sum([i \in DOMAIN values |-> values[i].v]),
     squares |-> Sum([i \in DOMAIN values |-> values[i].v * values[i].v])]

\* a variant of lines 180-183 that drops the new amplitude when the history
\* is full
history_after_drop_newest(history, amplitude) ==
    IF ~isfinite(amplitude) \/ Len(history) >= baseline_samples THEN history
    ELSE Append(history, amplitude)

\* update_baseline, lines 172-183: the history of the station afterwards
history_after(history, amplitude) ==
    IF ~isfinite(amplitude) THEN history
    ELSE LET appended == Append(history, amplitude)
         IN  IF Len(appended) > baseline_samples THEN Tail(appended) ELSE appended

\* update_baseline, lines 185-198: the baselines afterwards
baselines_after(bl, station, history, amplitude) ==
    IF /\ isfinite(amplitude)
       /\ Len(history) >= BaselineMinSamples
       /\ \A i \in DOMAIN history : isfinite(history[i])
    THEN [s \in DOMAIN bl \cup {station} |->
             IF s = station THEN Statistics(history) ELSE bl[s]]
    ELSE bl

\* station_info.get('freq', 20.0) * 1000 of line 122, in Hz
target_freq(station) ==
    IF \E i \in DOMAIN StationTable : StationTable[i].station = station
    THEN StationTable[CHOOSE i \in DOMAIN StationTable :
                          StationTable[i].station = station].freq
    ELSE 20000

\* line 124 with vlf_min_freq = 3000 and vlf_max_freq = 80000
in_vlf_range(station) ==
    target_freq(station) >= 3000 /\ target_freq(station) <= 80000

\* str.split('_') and int() on the band ids in use
split(band_id) ==
    CASE band_id = "band_1" -> <<"band", "1">>
      [] band_id = "band_2" -> <<"band", "2">>
      [] OTHER -> <<band_id>>
int(text) == CASE text = "1" -> 1 [] text = "2" -> 2

\* lines 219-225 for a finite amplitude a and a baseline b: z_score > 3.0 with
\* std > 0, as (count*a - total)^2 > 9 * (count*squares - total^2)
spike_or_drop(a, b) ==
    LET spread == b.count * b.squares - b.total * b.total
        offset == b.count * a - b.total
    IN  IF spread > 0 /\ offset * offset > 9 * spread
        THEN (IF offset > 0 THEN {"spike"} ELSE {"drop"})
        ELSE {}

\* line 227: amplitude < mean * 0.1 and mean > 0.001
signal_loss(a, b) ==
    IF 10 * b.count * a < b.total /\ 1000 * b.total > b.count
    THEN {"loss"} ELSE {}

\* check_anomalies, lines 204-231, for one entry of vlf_signals: the kinds of
\* anomaly reported.  An exception of line 206 is caught at line 230.
check_anomalies(band_id, amplitude, sts, bl) ==
    LET parts == split(band_id)
    IN  IF Len(parts) < 2 THEN {}
        ELSE LET band_num == int(parts[2]) - 1
             IN  IF band_num >= Len(sts) THEN {}
                 ELSE LET station == sts[band_num + 1]
                      IN  IF station \notin DOMAIN bl \/ ~isfinite(amplitude)
                          THEN {}
                          ELSE spike_or_drop(amplitude.v, bl[station])
                               \cup signal_loss(amplitude.v, bl[station])

\* no Signal was checked yet
NoSignal == [band_id |-> "", amplitude |-> Num(0)]

\* no update_baseline call was made yet
NoUpdate == [station |-> "", amplitude |-> Num(0)]

\* n amplitudes, 0 and 1 in turn
Alternating(n) == [i \in 1..n |-> Num(i % 2)]

\* VLFAudioProcessor with monitored_stations = ['NAA'] after the amplitudes
\* of `history` were fed for NAA, no more than baseline_samples of them
VLFAudioProcessor_after(history) ==
    /\ stations = <<"NAA">>
    /\ baseline_history = [s \in {"NAA"} |-> history]
    /\ audio_baselines = IF Len(history) >= BaselineMinSamples
                         THEN [s \in {"NAA"} |-> Statistics(history)]
                         ELSE <<>>
    /\ fed = [s \in {"NAA"} |-> history]
    /\ updates = 0
    /\ updated = NoUpdate
    /\ nan_warning_logged = FALSE
    /\ sanitize_warnings = 0
    /\ corrupted_buffers = 0
    /\ audio_buffer = <<>>
    /\ audio_signals = <<>>
    /\ checked = NoSignal
    /\ reported = {}

\* VLFAudioProcessor.__init__ with monitored_stations = ['NAA']
VLFAudioProcessor_init ==
    /\ stations = <<"NAA">>
    /\ baseline_history = [s \in {"NAA"} |-> <<>>]
    /\ audio_baselines = <<>>
    /\ fed = [s \in {"NAA"} |-> <<>>]
    /\ updates = 0
    /\ updated = NoUpdate
    /\ nan_warning_logged = FALSE
    /\ sanitize_warnings = 0
    /\ corrupted_buffers = 0
    /\ audio_buffer = <<>>
    /\ audio_signals = <<>>
    /\ checked = NoSignal
    /\ reported = {}

\* -------------------------------------------------------- RealtimeStorage
\* datetime('now') of the query, in minutes
Clock == 100

Writers == 1..MaxWriters
\* the RealtimeStorage objects on the database file: the monitoring system's
\* and the API's
Instances == {1, 2}
StoredStations == {"NAA", "NPM"}
\* the minutes of a query
Minutes == {60}
\* the times measured at, in minutes
Times == {Clock - 90, Clock - 1}

\* a VLFMeasurement carries a datetime, a Signal float epoch seconds
DateTime(t) == [kind |-> "datetime", t |-> t]
Epoch(t) == [kind |-> "float", t |-> t]

\* what sqlite3 binds for a timestamp: a datetime becomes its ISO text, a
\* float stays a REAL
adapt(timestamp) ==
    IF timestamp.kind = "datetime" THEN [type |-> "text", t |-> timestamp.t]
    ELSE [type |-> "real", t |-> timestamp.t]

\* timestamp > datetime('now', '-{} minutes') as SQLite evaluates it: texts
\* compare as strings, and a REAL is less than every TEXT
newer_than(column, minutes) ==
    column.type = "text" /\ column.t > Clock - minutes

\* ORDER BY timestamp DESC: texts sort above numbers
sort_key(column) == IF column.type = "text" THEN column.t + 2 * Clock ELSE column.t

\* datetime.fromisoformat(row['timestamp']); it raises TypeError for a number
fromisoformat(column) == DateTime(column.t)

\* the row an INSERT of measurement k of call c writes
Row(c, k, m) ==
    [call |-> c, k |-> k, timestamp |-> adapt(m.timestamp),
     station_id |-> m.station_id, amplitude |-> m.amplitude]

\* the rows of a query result in the order of ORDER BY timestamp DESC
Ordered(rows) ==
    {seq \in [1..Cardinality(rows) -> rows] :
        /\ \A i, j \in DOMAIN seq : i # j => seq[i] # seq[j]
        /\ \A i, j \in DOMAIN seq :
               i < j => sort_key(seq[i].timestamp) >= sort_key(seq[j].timestamp)}

\* lines 101-123: the SELECT and the VLFMeasurement built from each row
get_recent_data(station_id, minutes) ==
    LET selected == {r \in measurements :
                        /\ r.station_id = station_id
                        /\ newer_than(r.timestamp, minutes)}
    IN  IF \E r \in selected : r.timestamp.type # "text" THEN {<<>>}
        ELSE {[i \in DOMAIN seq |->
                  [call |-> seq[i].call, k |-> seq[i].k,
                   timestamp |-> fromisoformat(seq[i].timestamp),
                   station_id |-> seq[i].station_id,
                   amplitude |-> seq[i].amplitude]] : seq \in Ordered(selected)}

IdleWriter == [pc |-> "idle", call |-> 0, instance |-> 0, done |-> 0]

\* RealtimeStorage.__init__ on an empty database
RealtimeStorage_init ==
    /\ measurements = {}
    /\ pending = {}
    /\ storage_lock = [i \in Instances |-> 0]
    /\ db_writer = 0
    /\ writers = [w \in Writers |-> IdleWriter]
    /\ calls = <<>>
    /\ recent_data = [station_id |-> "", minutes |-> 0, rows |-> <<>>,
                      uncommitted |-> {}]

\* ------------------------------------------------------------------ Init
\* the system as constructed, with the data callbacks registered so far
InitSystemWith(callbacks) ==
    /\ is_monitoring = FALSE
    /\ stream = "None"
    /\ audio_queue = <<>>
    /\ processing_thread = 0
    /\ data_callbacks = callbacks
    /\ anomaly_callbacks = <<>>
    /\ baselines = {}
    /\ db = {}
    /\ leaked = FALSE
    /\ pc = "idle"
    /\ rollback = FALSE
    /\ result = "none"
    /\ worker = [t \in Threads |-> [pc |-> "none", frame |-> 0]]
    /\ cb_pc = "idle"
    /\ cb_frame = 0
    /\ next_frame = 0
    /\ trial_ok = FALSE
    /\ seen_monitoring = FALSE
    /\ handed = {}
    /\ write_failed = {}
    /\ was_stopped = FALSE
    /\ iter_log = <<>>
    /\ last_processed = 0
    /\ held_over = {}
    /\ cb_raised = FALSE
    /\ run_pushes = 0
    /\ cb_inserted = TRUE
    /\ chunk = NoChunk
    /\ vlf_signals = {}
    /\ vlf_frequency = <<>>
    /\ VLFProcessor_baselines_init
    /\ RealtimeStorage_init

InitSystem == InitSystemWith(<<>>)

InitCommon ==
    /\ InitSystem
    /\ VLFAudioProcessor_init

\* a configuration whose stations all got a filter
Init ==
    /\ InitCommon
    /\ VLFProcessor_init(Configuration(1), DefaultSampleRate)
    /\ filters = Stations

\* the system as the API's start route leaves it: constructed, with its data
\* callback registered (vlf_api.py 333-335)
InitReconfigure ==
    /\ InitSystemWith(<<1>>)
    /\ VLFAudioProcessor_init
    /\ VLFProcessor_init(Configuration(1), DefaultSampleRate)
    /\ filters = Stations

\* a configuration without stations: station_frequencies defaults to {}
InitNoStations ==
    /\ InitCommon
    /\ VLFProcessor_init(Configuration(0), DefaultSampleRate)
    /\ filters = {}

\* VLFAudioProcessor with a history that is empty, one short of the baseline
\* threshold, one short of baseline_samples, or full
InitBaseline ==
    /\ InitSystem
    /\ VLFProcessor_init(Configuration(1), DefaultSampleRate)
    /\ filters = Stations
    /\ \E n \in {0, BaselineMinSamples - 1, baseline_samples - 1,
                  baseline_samples} :
         VLFAudioProcessor_after(Alternating(n))

\* VLFProcessor built from a configuration with up to MaxStations stations
InitProcessor ==
    /\ InitCommon
    /\ \E n \in 0..MaxStations, rate \in SampleRates :
         /\ VLFProcessor_init(Configuration(n), rate)
         /\ filters = create_filters(create_test_bands(Configuration(n)), rate)

\* --------------------------------------------------- registration (API)
\* Every caller in the repository registers its callbacks before the first
\* start_monitoring (test_vlf_system.py 43-44, vlf_integration.py 27-28,
\* vlf_api.py 337-338, vlf_gui_integration.py 36-37).
register_data_callback ==
    /\ pc = "idle"
    /\ result = "none"
    /\ Len(data_callbacks) + Len(anomaly_callbacks) < MaxCallbacks
    /\ data_callbacks' = Append(data_callbacks, Len(data_callbacks) + 1)
    /\ UNCHANGED <<unit_vars, anomaly_callbacks, filters, audio_queue, worker,
                   seen_monitoring, run_pushes, ctl_vars, cb_vars, store_vars>>

register_anomaly_callback ==
    /\ pc = "idle"
    /\ result = "none"
    /\ Len(data_callbacks) + Len(anomaly_callbacks) < MaxCallbacks
    /\ anomaly_callbacks' = Append(anomaly_callbacks, Len(anomaly_callbacks) + 1)
    /\ UNCHANGED <<unit_vars, data_callbacks, filters, audio_queue, worker,
                   seen_monitoring, run_pushes, ctl_vars, cb_vars, store_vars>>

\* ------------------------------------------------------ _audio_callback
\* queue.Queue.put_nowait raises queue.Full in this case
QueueFull(q) == Len(q) >= QueueMaxSize

\* lines 62-74: the driver hands over a frame; first put_nowait
audio_callback ==
    /\ stream = "open"
    /\ cb_pc = "idle"
    /\ next_frame < FrameLimit
    /\ next_frame' = next_frame + 1
    /\ IF QueueFull(audio_queue)
       THEN /\ cb_pc' = "evict"
            /\ cb_frame' = next_frame + 1
            /\ UNCHANGED <<audio_queue, run_pushes, cb_inserted>>
       ELSE /\ audio_queue' = Append(audio_queue, next_frame + 1)
            /\ run_pushes' = run_pushes + 1
            /\ cb_inserted' = TRUE
            /\ UNCHANGED <<cb_pc, cb_frame>>
    /\ UNCHANGED <<unit_vars, ctl_vars, store_vars, reg_vars, worker, seen_monitoring>>

\* a variant of lines 75-79 that keeps the buffered frames on queue.Full and
\* discards the frame it was given
audio_callback_drop_newest ==
    /\ cb_pc = "evict"
    /\ cb_pc' = "idle"
    /\ cb_frame' = 0
    /\ run_pushes' = run_pushes + 1
    /\ cb_inserted' = FALSE
    /\ UNCHANGED <<unit_vars, audio_queue, ctl_vars, store_vars, reg_vars, worker,
                   seen_monitoring, next_frame>>

\* lines 75-76, 78-79: get_nowait after queue.Full; queue.Empty drops the frame
audio_callback_evict ==
    /\ cb_pc = "evict"
    /\ IF audio_queue = <<>>
       THEN /\ cb_pc' = "idle"
            /\ cb_frame' = 0
            /\ run_pushes' = run_pushes + 1
            /\ cb_inserted' = FALSE
            /\ UNCHANGED audio_queue
       ELSE /\ audio_queue' = Tail(audio_queue)
            /\ cb_pc' = "reput"
            /\ UNCHANGED <<cb_frame, run_pushes, cb_inserted>>
    /\ UNCHANGED <<unit_vars, ctl_vars, store_vars, reg_vars, worker, seen_monitoring,
                   next_frame>>

\* lines 77, 81-82: second put_nowait; queue.Full is caught by the outer handler
audio_callback_reput ==
    /\ cb_pc = "reput"
    /\ IF QueueFull(audio_queue)
       THEN /\ cb_inserted' = FALSE
            /\ UNCHANGED audio_queue
       ELSE /\ audio_queue' = Append(audio_queue, cb_frame)
            /\ cb_inserted' = TRUE
    /\ cb_pc' = "idle"
    /\ cb_frame' = 0
    /\ run_pushes' = run_pushes + 1
    /\ UNCHANGED <<unit_vars, ctl_vars, store_vars, reg_vars, worker, seen_monitoring,
                   next_frame>>

\* --------------------------------------------------- _processing_worker
Event(ev, cb) == [ev |-> ev, cb |-> cb]

\* VLFProcessor.process_chunk (lines 104-159) on a frame of the stream: empty
\* without filters, else a Signal per station with a filter
process_chunk(fs) ==
    process_chunk_stations(TRUE, filter_order(vlf_bands, fs), {})

\* VLFProcessor.update_baseline: every station of the chunk has a baseline
update_baseline(bl, signals) == bl \cup signals

\* RealtimeStorage.store_measurement: the rows the call commits
store_measurement(row, fails) == IF fails THEN {} ELSE {row}

\* _store_signals: one store_measurement per Signal of the chunk
store_signals(f, signals, wfail) ==
    UNION { store_measurement(<<f, s>>, s \in wfail) : s \in signals }

\* a variant of lines 104-108 and 114-118 with one try around the whole loop:
\* the first callback that raises ends it
RECURSIVE invoke_callbacks_until_raise(_, _, _)
invoke_callbacks_until_raise(kind, callbacks, raising) ==
    IF callbacks = <<>> THEN <<>>
    ELSE <<Event(kind, Head(callbacks))>>
         \o (IF Head(callbacks) \in raising THEN <<>>
             ELSE invoke_callbacks_until_raise(kind, Tail(callbacks), raising))

\* lines 104-108 and 114-118: every callback is called inside its own try
RECURSIVE invoke_callbacks(_, _, _)
invoke_callbacks(kind, callbacks, raising) ==
    IF callbacks = <<>> THEN <<>>
    ELSE <<Event(kind, Head(callbacks))>>
         \o invoke_callbacks(kind, Tail(callbacks), raising)

\* a variant of lines 97-118 without the test of line 99: the data callbacks
\* are called with an empty mapping too
iteration_unguarded(signals, draise, anomalies, araise) ==
    <<Event("process", 0)>>
    \o (IF signals = {} THEN <<>> ELSE <<Event("baseline", 0), Event("store", 0)>>)
    \o invoke_callbacks("data", data_callbacks, draise)
    \o (IF signals = {} THEN <<>> ELSE <<Event("detect", IF anomalies THEN 1 ELSE 0)>>)
    \o (IF anomalies
        THEN invoke_callbacks("anomaly", anomaly_callbacks, araise)
        ELSE <<>>)

\* a variant of lines 97-118 that detects anomalies before it calls the data
\* callbacks
iteration_detect_first(signals, draise, anomalies, araise) ==
    IF signals = {} THEN <<Event("process", 0)>>
    ELSE <<Event("process", 0), Event("baseline", 0), Event("store", 0)>>
         \o <<Event("detect", IF anomalies THEN 1 ELSE 0)>>
         \o invoke_callbacks("data", data_callbacks, draise)
         \o (IF anomalies
             THEN invoke_callbacks("anomaly", anomaly_callbacks, araise)
             ELSE <<>>)

\* lines 97-118: what one iteration does with a chunk, in order; the event of
\* detect_anomalies carries 1 when the list it returned is not empty
iteration(signals, draise, anomalies, araise) ==
    IF signals = {} THEN <<Event("process", 0)>>
    ELSE <<Event("process", 0), Event("baseline", 0), Event("store", 0)>>
         \o invoke_callbacks("data", data_callbacks, draise)
         \o <<Event("detect", IF anomalies THEN 1 ELSE 0)>>
         \o (IF anomalies
             THEN invoke_callbacks("anomaly", anomaly_callbacks, araise)
             ELSE <<>>)

\* a variant of line 90 that loops whatever the flag says
processing_worker_check_forever(t) ==
    /\ worker[t].pc = "check"
    /\ worker' = [worker EXCEPT ![t].pc = "get"]
    /\ UNCHANGED <<unit_vars, ctl_vars, cb_vars, store_vars, reg_vars, audio_queue,
                   seen_monitoring, run_pushes>>

\* line 90: while self.is_monitoring; the thread ends when it is false
processing_worker_check(t) ==
    /\ worker[t].pc = "check"
    /\ worker' = [worker EXCEPT ![t].pc = IF is_monitoring THEN "get" ELSE "none"]
    /\ UNCHANGED <<unit_vars, ctl_vars, cb_vars, store_vars, reg_vars, audio_queue,
                   seen_monitoring, run_pushes>>

\* lines 92-95: audio_queue.get(timeout=1.0); queue.Empty restarts the loop
processing_worker_get(t) ==
    /\ worker[t].pc = "get"
    /\ IF audio_queue = <<>>
       THEN /\ worker' = [worker EXCEPT ![t].pc = "check"]
            /\ UNCHANGED <<audio_queue, run_pushes>>
       ELSE /\ worker' = [worker EXCEPT ![t] = [pc |-> "run", frame |-> Head(audio_queue)]]
            /\ audio_queue' = Tail(audio_queue)
            /\ run_pushes' = 0
    /\ UNCHANGED <<unit_vars, ctl_vars, cb_vars, store_vars, reg_vars, seen_monitoring>>

\* lines 97-122: process the chunk, update baselines, store, call back
processing_worker_run(t) ==
    /\ worker[t].pc = "run"
    /\ \E wfail \in SUBSET filters,
          draise \in SUBSET (1..Len(data_callbacks)), anomalies \in BOOLEAN,
          araise \in SUBSET (1..Len(anomaly_callbacks)) :
        LET f == worker[t].frame
            signals == process_chunk(filters)
        IN  /\ wfail \subseteq signals
            /\ signals = {} => draise = {}
            \* detect_anomalies: a station whose baseline was just created
            \* has change = 0
            /\ anomalies => (signals \cap baselines) # {}
            /\ ~anomalies => araise = {}
            /\ baselines' = IF signals = {} THEN baselines
                            ELSE update_baseline(baselines, signals)
            /\ handed' = handed \cup {<<f, s>> : s \in signals}
            /\ db' = db \cup store_signals(f, signals, wfail)
            /\ write_failed' = write_failed \cup {<<f, s>> : s \in wfail}
            /\ iter_log' = iteration(signals, draise, anomalies, araise)
            /\ cb_raised' = (draise \cup araise # {})
            /\ last_processed' = IF f > last_processed THEN f ELSE last_processed
            /\ held_over' = held_over \ {f}
    /\ worker' = [worker EXCEPT ![t] = [pc |-> "check", frame |-> 0]]
    /\ UNCHANGED <<unit_vars, ctl_vars, cb_vars, reg_vars, audio_queue, seen_monitoring,
                   run_pushes>>

\* ------------------------------------------------------ start_monitoring
StartPcs == {"test", "open", "flag", "thread", "start_stream", "stop"}
StopPcs == {"stop_stream", "join", "drain"}

\* a variant of _test_audio_device that reports success whatever happened
test_audio_device_always_ok(outcome) ==
    [ok |-> TRUE, left_open |-> (outcome = "read_fails")]

\* _test_audio_device: the trial stream is opened, read, stopped and closed;
\* an exception of open or read is caught.  The result, and whether the
\* trial stream is left open.
test_audio_device(outcome) ==
    CASE outcome = "ok" -> [ok |-> TRUE, left_open |-> FALSE]
      [] outcome = "open_fails" -> [ok |-> FALSE, left_open |-> FALSE]
      [] outcome = "read_fails" -> [ok |-> FALSE, left_open |-> TRUE]

\* a variant of start_monitoring without lines 136-138: it goes on to the
\* trial read whatever is_monitoring says
start_monitoring_unchecked ==
    /\ pc = "idle"
    /\ FreeThreads # {}
    /\ result' = "none"
    /\ pc' = "test"
    /\ UNCHANGED <<unit_vars, is_monitoring, stream, processing_thread, leaked, rollback,
                   trial_ok, was_stopped, audio_queue, worker, cb_vars, store_vars,
                   reg_vars, seen_monitoring, run_pushes>>

\* lines 136-143: the first check
start_monitoring ==
    /\ pc = "idle"
    /\ IF is_monitoring
       THEN /\ result' = "start_true"
            /\ UNCHANGED pc
       ELSE /\ FreeThreads # {}
            /\ result' = "none"
            /\ pc' = "test"
    /\ UNCHANGED <<unit_vars, is_monitoring, stream, processing_thread, leaked, rollback,
                   trial_ok, was_stopped, audio_queue, worker, cb_vars, store_vars,
                   reg_vars, seen_monitoring, run_pushes>>

\* lines 145-147: the trial read
start_monitoring_test ==
    /\ pc = "test"
    /\ \E outcome \in {"ok", "open_fails", "read_fails"} :
         LET r == test_audio_device(outcome)
         IN  /\ leaked' = (leaked \/ r.left_open)
             /\ trial_ok' = (outcome = "ok")
             /\ pc' = IF r.ok THEN "open" ELSE "idle"
             /\ result' = IF r.ok THEN "none" ELSE "start_false"
    /\ UNCHANGED <<unit_vars, is_monitoring, stream, processing_thread, rollback, was_stopped,
                   audio_queue, worker, cb_vars, store_vars, reg_vars,
                   seen_monitoring, run_pushes>>

\* line 173-175: an exception of lines 149-167 is caught and stop_monitoring
\* is called
start_failed ==
    /\ rollback' = TRUE
    /\ pc' = "stop"

\* lines 149-157: self.audio.open with stream_callback; the stream starts running
start_monitoring_open ==
    /\ pc = "open"
    /\ \/ /\ stream' = "open"
          /\ pc' = "flag"
          /\ UNCHANGED rollback
       \/ /\ start_failed
          /\ UNCHANGED stream
    /\ UNCHANGED <<unit_vars, is_monitoring, processing_thread, leaked, result, trial_ok,
                   was_stopped, audio_queue, worker, cb_vars, store_vars, reg_vars,
                   seen_monitoring, run_pushes>>

\* a variant of start_monitoring without line 159
start_monitoring_flag_unset ==
    /\ pc = "flag"
    /\ pc' = "thread"
    /\ UNCHANGED <<unit_vars, is_monitoring, stream, processing_thread, leaked, rollback,
                   result, trial_ok, was_stopped, audio_queue, worker, cb_vars,
                   store_vars, reg_vars, seen_monitoring, run_pushes>>

\* line 159
start_monitoring_flag ==
    /\ pc = "flag"
    /\ is_monitoring' = TRUE
    /\ pc' = "thread"
    /\ UNCHANGED <<unit_vars, stream, processing_thread, leaked, rollback, result, trial_ok,
                   was_stopped, audio_queue, worker, cb_vars, store_vars, reg_vars,
                   seen_monitoring, run_pushes>>

\* lines 161-165: the Thread object is assigned, then started
start_monitoring_thread ==
    /\ pc = "thread"
    /\ \/ /\ processing_thread' = Min(FreeThreads)
          /\ worker' = [worker EXCEPT ![Min(FreeThreads)].pc = "check"]
          /\ pc' = "start_stream"
          /\ UNCHANGED rollback
       \/ /\ start_failed
          /\ processing_thread' = -1
          /\ UNCHANGED worker
    /\ UNCHANGED <<unit_vars, is_monitoring, stream, leaked, result, trial_ok, was_stopped,
                   audio_queue, cb_vars, store_vars, reg_vars, seen_monitoring, run_pushes>>

\* lines 167-171
start_monitoring_stream ==
    /\ pc = "start_stream"
    /\ \/ /\ pc' = "idle"
          /\ result' = "start_true"
          /\ trial_ok' = FALSE
          /\ seen_monitoring' = FALSE
          /\ UNCHANGED rollback
       \/ /\ start_failed
          /\ UNCHANGED <<result, trial_ok, seen_monitoring>>
    /\ UNCHANGED <<unit_vars, is_monitoring, stream, processing_thread, leaked, was_stopped,
                   audio_queue, worker, cb_vars, store_vars, reg_vars, run_pushes>>

\* ------------------------------------------------------- stop_monitoring
\* lines 180-182, called by the control thread or by the handler of line 175
stop_monitoring ==
    /\ pc \in {"idle", "stop"}
    /\ is_monitoring' = FALSE
    /\ pc' = "stop_stream"
    /\ UNCHANGED <<unit_vars, stream, processing_thread, leaked, rollback, result, trial_ok,
                   was_stopped, audio_queue, worker, cb_vars, store_vars, reg_vars,
                   seen_monitoring, run_pushes>>

\* a variant of lines 184-190 without line 190: self.stream keeps the stream
stop_monitoring_stream_kept ==
    /\ pc = "stop_stream"
    /\ pc' = "join"
    /\ IF stream = "None"
       THEN UNCHANGED leaked
       ELSE /\ cb_pc = "idle"
            /\ \E closed \in BOOLEAN : leaked' = (leaked \/ ~closed)
    /\ UNCHANGED <<unit_vars, is_monitoring, stream, processing_thread, rollback, result,
                   trial_ok, was_stopped, audio_queue, worker, cb_vars,
                   store_vars, reg_vars, seen_monitoring, run_pushes>>

\* lines 184-190: stop_stream returns once the running callback has returned;
\* an exception of stop_stream or close is caught and leaves the stream open
stop_monitoring_stream ==
    /\ pc = "stop_stream"
    /\ pc' = "join"
    /\ IF stream = "None"
       THEN UNCHANGED <<stream, leaked>>
       ELSE /\ cb_pc = "idle"
            /\ stream' = "None"
            /\ \E closed \in BOOLEAN : leaked' = (leaked \/ ~closed)
    /\ UNCHANGED <<unit_vars, is_monitoring, processing_thread, rollback, result, trial_ok,
                   was_stopped, audio_queue, worker, cb_vars, store_vars, reg_vars,
                   seen_monitoring, run_pushes>>

\* lines 192-193: join(timeout=2.0) returns whether or not the worker has ended
stop_monitoring_join ==
    /\ pc = "join"
    /\ pc' = "drain"
    /\ UNCHANGED <<unit_vars, is_monitoring, stream, processing_thread, leaked, rollback,
                   result, trial_ok, was_stopped, audio_queue, worker, cb_vars,
                   store_vars, reg_vars, seen_monitoring, run_pushes>>

\* lines 195-201: get_nowait until queue.Empty, then return
stop_monitoring_drain ==
    /\ pc = "drain"
    /\ IF audio_queue # <<>>
       THEN /\ audio_queue' = Tail(audio_queue)
            /\ run_pushes' = 0
            /\ UNCHANGED <<pc, rollback, result, trial_ok, seen_monitoring,
                           was_stopped, held_over>>
       ELSE /\ pc' = "idle"
            /\ held_over' = {worker[t].frame : t \in {u \in Threads : worker[u].pc = "run"}}
            /\ was_stopped' = (was_stopped \/ ~rollback)
            /\ rollback' = FALSE
            /\ trial_ok' = FALSE
            /\ seen_monitoring' = FALSE
            /\ result' = IF rollback THEN "start_false"
                         ELSE IF result \in {"stop", "stop2"} THEN "stop2"
                         ELSE "stop"
            /\ UNCHANGED <<audio_queue, run_pushes>>
    /\ UNCHANGED <<unit_vars, is_monitoring, stream, processing_thread, leaked, worker,
                   cb_vars, baselines, db, handed, write_failed, iter_log, cb_raised,
                   last_processed, reg_vars>>

\* ----------------------------------------------------- get_system_status
\* reads is_monitoring; remembers a true read made while a start is running
get_system_status ==
    /\ is_monitoring
    /\ pc \in StartPcs
    /\ ~seen_monitoring
    /\ seen_monitoring' = TRUE
    /\ UNCHANGED <<unit_vars, ctl_vars, cb_vars, store_vars, reg_vars, audio_queue, worker,
                   run_pushes>>

\* ------------------------------------------------------------------ Next
Worker ==
    \/ \E t \in Threads : processing_worker_check(t)
    \/ \E t \in Threads : processing_worker_get(t)
    \/ \E t \in Threads : processing_worker_run(t)

Control ==
    \/ start_monitoring
    \/ start_monitoring_test
    \/ start_monitoring_open
    \/ start_monitoring_flag
    \/ start_monitoring_thread
    \/ start_monitoring_stream
    \/ stop_monitoring
    \/ stop_monitoring_stream
    \/ stop_monitoring_join
    \/ stop_monitoring_drain

\* the handler of queue.Full in _audio_callback
Overflow ==
    \/ audio_callback_evict
    \/ audio_callback_reput

\* the sample rate set_real_vlf_mode is called with: its default, line 213
RealRates == {96000}

\* set_real_vlf_mode, lines 215-217: the rate, the mode and the bands.  The
\* method tests nothing before it assigns.
set_real_vlf_mode_bands ==
    /\ mode_pc = "idle"
    /\ \E rate \in RealRates :
         /\ sample_rate' = rate
         /\ vlf_bands' = create_vlf_bands(station_frequencies, rate)
    /\ test_mode' = FALSE
    /\ mode_pc' = "clear"
    /\ UNCHANGED <<system_vars, filters, station_frequencies, chunk,
                   vlf_signals, vlf_frequency, det_vars, ap_vars, st_vars>>

\* line 218: self.filters = {}
set_real_vlf_mode_clear ==
    /\ mode_pc = "clear"
    /\ filters' = {}
    /\ mode_pc' = "filters"
    /\ UNCHANGED <<system_vars, sample_rate, station_frequencies, test_mode,
                   vlf_bands, chunk, vlf_signals, vlf_frequency, det_vars, ap_vars, st_vars>>

\* line 219: _create_filters refills self.filters
set_real_vlf_mode_filters ==
    /\ mode_pc = "filters"
    /\ filters' = create_filters(vlf_bands, sample_rate)
    /\ mode_pc' = "idle"
    /\ UNCHANGED <<system_vars, sample_rate, station_frequencies, test_mode,
                   vlf_bands, chunk, vlf_signals, vlf_frequency, det_vars, ap_vars, st_vars>>

set_real_vlf_mode ==
    \/ set_real_vlf_mode_bands
    \/ set_real_vlf_mode_clear
    \/ set_real_vlf_mode_filters

\* With stations configured fewer than QueueMaxSize frames are captured
\* (MaxFrames), so put_nowait never raises queue.Full.
Next ==
    \/ register_data_callback
    \/ register_anomaly_callback
    \/ audio_callback
    \/ Worker
    \/ Control
    \/ get_system_status

\* the running system with a thread that calls set_real_vlf_mode
NextReconfigure ==
    \/ audio_callback
    \/ Worker
    \/ Control
    \/ set_real_vlf_mode

\* the running system without callbacks
NextLive ==
    \/ audio_callback
    \/ Worker
    \/ Control

\* nobody registers a callback; enough frames are captured to fill the queue
NextNoCallbacks ==
    \/ audio_callback
    \/ Overflow
    \/ Worker
    \/ Control
    \/ get_system_status

\* process_chunk called on its own with a chunk: long enough or not, and
\* with the stations whose processing raises
\* the buffers given to process_audio_buffer
Buffers == UNION {[1..n -> Samples] : n \in 0..MaxBuffer}

\* process_audio_buffer, lines 88-170
process_audio_buffer ==
    /\ \A s \in DOMAIN baseline_history : Len(baseline_history[s]) < MaxSamples
    /\ \E data \in Buffers :
         /\ audio_buffer' = data
         /\ IF data = <<>>
            THEN /\ audio_signals' = <<>>
                 /\ UNCHANGED <<baseline_history, audio_baselines,
                                nan_warning_logged, sanitize_warnings,
                                corrupted_buffers>>
            ELSE LET corrupted == \E i \in DOMAIN data : ~isfinite(data[i])
                     amplitude == Signal_amplitude(band_amplitude(sanitize(data)))
                     processed == {stations[i] : i \in {j \in DOMAIN stations :
                                                        in_vlf_range(stations[j])}}
                     history == [s \in DOMAIN baseline_history \cup processed |->
                                   LET old == IF s \in DOMAIN baseline_history
                                              THEN baseline_history[s] ELSE <<>>
                                   IN  IF s \in processed
                                       THEN history_after(old, amplitude) ELSE old]
                 IN  /\ nan_warning_logged' = (nan_warning_logged \/ corrupted)
                     /\ corrupted_buffers' =
                            IF corrupted THEN MinOf(corrupted_buffers + 1, 2)
                            ELSE corrupted_buffers
                     /\ sanitize_warnings' =
                            IF corrupted /\ ~nan_warning_logged
                            THEN MinOf(sanitize_warnings + 1, 2)
                            ELSE sanitize_warnings
                     /\ audio_signals' = [s \in processed |-> amplitude]
                     /\ baseline_history' = history
                     /\ audio_baselines' =
                            [s \in DOMAIN audio_baselines \cup
                                   {t \in processed :
                                       Len(history[t]) >= BaselineMinSamples} |->
                                IF s \in processed
                                THEN baselines_after(audio_baselines, s,
                                                     history[s], amplitude)[s]
                                ELSE audio_baselines[s]]
    \* the baselines checked against may have changed
    /\ checked' = NoSignal
    /\ reported' = {}
    /\ UNCHANGED <<system_vars, filters, vp_vars, chunk, vlf_signals, vlf_frequency, det_vars, st_vars,
                   stations, fed, updates, updated>>

\* check_anomalies called with one Signal, keyed by a station as
\* process_audio_buffer keys it or by a band number
check_anomalies_call ==
    /\ \E band_id \in {stations[i] : i \in DOMAIN stations} \cup {"band_1"},
          amplitude \in {Num(0), Num(1)} :
         /\ checked' = [band_id |-> band_id, amplitude |-> amplitude]
         /\ reported' = check_anomalies(band_id, amplitude, stations,
                                         audio_baselines)
    /\ UNCHANGED <<system_vars, filters, vp_vars, chunk, vlf_signals, vlf_frequency, det_vars, st_vars,
                   stations, baseline_history, audio_baselines, fed, updates,
                   updated, nan_warning_logged,
                   sanitize_warnings, corrupted_buffers, audio_buffer,
                   audio_signals>>

\* update_baseline(station, amplitude), lines 172-198, called on its own
update_baseline_call ==
    /\ updates < MaxUpdates
    /\ \E station \in {"NAA", "NPM"}, amplitude \in {Num(0), Num(1), NaN, Inf} :
         LET old == IF station \in DOMAIN baseline_history
                    THEN baseline_history[station] ELSE <<>>
             history == history_after(old, amplitude)
         IN  /\ updated' = [station |-> station, amplitude |-> amplitude]
             /\ baseline_history' =
                    IF isfinite(amplitude)
                    THEN [s \in DOMAIN baseline_history \cup {station} |->
                             IF s = station THEN history ELSE baseline_history[s]]
                    ELSE baseline_history
             /\ audio_baselines' =
                    baselines_after(audio_baselines, station, history, amplitude)
             /\ fed' =
                    IF isfinite(amplitude)
                    THEN [s \in DOMAIN fed \cup {station} |->
                             IF s = station
                             THEN Append(IF s \in DOMAIN fed THEN fed[s] ELSE <<>>,
                                         amplitude)
                             ELSE fed[s]]
                    ELSE fed
    /\ updates' = updates + 1
    /\ UNCHANGED <<system_vars, filters, vp_vars, chunk, vlf_signals, vlf_frequency, det_vars, st_vars,
                   stations, nan_warning_logged, sanitize_warnings,
                   corrupted_buffers, audio_buffer, audio_signals, checked,
                   reported>>

NextBaseline == update_baseline_call

NextAudioProcessor ==
    \/ process_audio_buffer
    \/ check_anomalies_call

\* store_batch is called with measurements taken at one time (line 78)
store_batch_call(w) ==
    /\ writers[w].pc = "idle"
    /\ Len(calls) < MaxCalls
    /\ \E i \in Instances, n \in 1..MaxBatch, t \in Times :
         \E ids \in [1..n -> StoredStations] :
            /\ calls' = Append(calls,
                   [op |-> "store_batch", status |-> "open",
                    rows |-> [k \in 1..n |->
                                 [timestamp |-> DateTime(t),
                                  station_id |-> ids[k], amplitude |-> k]]])
            /\ writers' = [writers EXCEPT ![w] =
                   [pc |-> "lock", call |-> Len(calls) + 1, instance |-> i,
                    done |-> 0]]
    /\ UNCHANGED <<system_vars, filters, vp_vars, chunk, vlf_signals, vlf_frequency, det_vars, ap_vars,
                   measurements, pending, storage_lock, db_writer, recent_data>>

\* store_measurement is called with a Signal by _store_signals (line 58)
store_measurement_call(w) ==
    /\ writers[w].pc = "idle"
    /\ Len(calls) < MaxCalls
    /\ \E i \in Instances, t \in Times, id \in StoredStations :
         /\ calls' = Append(calls,
                [op |-> "store_measurement", status |-> "open",
                 rows |-> <<[timestamp |-> Epoch(t), station_id |-> id,
                             amplitude |-> 1]>>])
         /\ writers' = [writers EXCEPT ![w] =
                [pc |-> "lock", call |-> Len(calls) + 1, instance |-> i,
                 done |-> 0]]
    /\ UNCHANGED <<system_vars, filters, vp_vars, chunk, vlf_signals, vlf_frequency, det_vars, ap_vars,
                   measurements, pending, storage_lock, db_writer, recent_data>>

\* with self._lock (lines 60, 80)
storage_lock_acquire(w) ==
    /\ writers[w].pc = "lock"
    /\ storage_lock[writers[w].instance] = 0
    /\ storage_lock' = [storage_lock EXCEPT ![writers[w].instance] = w]
    /\ writers' = [writers EXCEPT ![w].pc = "insert"]
    /\ UNCHANGED <<system_vars, filters, vp_vars, chunk, vlf_signals, vlf_frequency, det_vars, ap_vars,
                   measurements, pending, db_writer, calls, recent_data>>

\* a variant of the INSERT that commits each row at once
insert_row_autocommit(row) ==
    /\ measurements' = measurements \cup {row}
    /\ UNCHANGED pending

\* one row of the INSERT, written inside the connection's transaction
insert_row(row) ==
    /\ pending' = pending \cup {row}
    /\ UNCHANGED measurements

\* conn.execute / conn.executemany (lines 63-73, 88-92), row by row: the first
\* row takes SQLite's write lock or times out on it, and any row may fail
connection_insert(w) ==
    /\ writers[w].pc = "insert"
    /\ writers[w].done < Len(calls[writers[w].call].rows)
    /\ \/ /\ db_writer \in {0, w}
          /\ db_writer' = w
          /\ insert_row(Row(writers[w].call, writers[w].done + 1,
                            calls[writers[w].call].rows[writers[w].done + 1]))
          /\ writers' = [writers EXCEPT ![w].done = @ + 1]
       \/ /\ writers' = [writers EXCEPT ![w].pc = "except"]
          /\ UNCHANGED <<db_writer, measurements, pending>>
    /\ UNCHANGED <<system_vars, filters, vp_vars, chunk, vlf_signals, vlf_frequency, det_vars, ap_vars,
                   storage_lock, calls, recent_data>>

\* the connection's context manager on leaving the block normally: COMMIT
connection_commit(w) ==
    /\ writers[w].pc = "insert"
    /\ writers[w].done = Len(calls[writers[w].call].rows)
    /\ measurements' = measurements \cup pending
    /\ pending' = {}
    /\ db_writer' = 0
    /\ calls' = [calls EXCEPT ![writers[w].call].status = "committed"]
    /\ writers' = [writers EXCEPT ![w].pc = "unlock"]
    /\ UNCHANGED <<system_vars, filters, vp_vars, chunk, vlf_signals, vlf_frequency, det_vars, ap_vars,
                   storage_lock, recent_data>>

\* the context manager on an exception: ROLLBACK; the exception is logged
\* (lines 75-76, 96-97)
connection_rollback(w) ==
    /\ writers[w].pc = "except"
    /\ pending' = IF db_writer = w THEN {} ELSE pending
    /\ db_writer' = IF db_writer = w THEN 0 ELSE db_writer
    /\ calls' = [calls EXCEPT ![writers[w].call].status = "failed"]
    /\ writers' = [writers EXCEPT ![w].pc = "unlock"]
    /\ UNCHANGED <<system_vars, filters, vp_vars, chunk, vlf_signals, vlf_frequency, det_vars, ap_vars,
                   measurements, storage_lock, recent_data>>

\* leaving with self._lock
storage_lock_release(w) ==
    /\ writers[w].pc = "unlock"
    /\ storage_lock' = [storage_lock EXCEPT ![writers[w].instance] = 0]
    /\ writers' = [writers EXCEPT ![w] = IdleWriter]
    /\ UNCHANGED <<system_vars, filters, vp_vars, chunk, vlf_signals, vlf_frequency, det_vars, ap_vars,
                   measurements, pending, db_writer, calls, recent_data>>

\* get_recent_data, lines 99-127: it takes no lock and reads what is committed
get_recent_data_call ==
    /\ \E station_id \in StoredStations, minutes \in Minutes :
         \E rows \in get_recent_data(station_id, minutes) :
            recent_data' = [station_id |-> station_id, minutes |-> minutes,
                            rows |-> rows, uncommitted |-> pending]
    /\ UNCHANGED <<system_vars, filters, vp_vars, chunk, vlf_signals, vlf_frequency, det_vars, ap_vars,
                   measurements, pending, storage_lock, db_writer, writers,
                   calls>>

NextStorage ==
    \/ \E w \in Writers :
          \/ store_batch_call(w)
          \/ store_measurement_call(w)
          \/ storage_lock_acquire(w)
          \/ connection_insert(w)
          \/ connection_commit(w)
          \/ connection_rollback(w)
          \/ storage_lock_release(w)
    \/ get_recent_data_call

process_chunk_call ==
    /\ \E long_enough \in BOOLEAN, failing \in SUBSET filters,
          dominant \in DominantFreqs :
         LET signals == process_chunk_stations(
                 long_enough, filter_order(vlf_bands, filters), failing)
         IN  /\ chunk' = [long_enough |-> long_enough, failing |-> failing,
                          dominant |-> dominant]
             /\ vlf_signals' = signals
             /\ vlf_frequency' =
                    [s \in signals |->
                        display_freq(test_mode, station_frequencies, s, dominant)]
    /\ UNCHANGED <<system_vars, filters, vp_vars, det_vars, ap_vars, st_vars>>

NextProcessor == process_chunk_call

\* vlf_system.py lines 97-100: a worker's chunk has a Signal of the station and
\* update_baseline is called with it
worker_update_baseline(t) ==
    /\ detect_worker[t].pc = "get"
    /\ chunks < MaxChunks
    /\ \E amplitude \in Amplitudes :
         LET signals == [s \in Stations |-> amplitude]
         IN  /\ baseline_values' = update_baseline_values(baseline_values, signals)
             /\ detect_worker' = [detect_worker EXCEPT
                    ![t] = [pc |-> "updated", signals |-> signals,
                            before |-> baseline_values]]
    /\ chunks' = chunks + 1
    /\ UNCHANGED <<system_vars, filters, vp_vars, chunk, vlf_signals, vlf_frequency,
                   detection, ap_vars, st_vars>>

\* vlf_system.py line 110, after _store_signals and the data callbacks
\* returned: detect_anomalies with the same Signals
worker_detect_anomalies(t) ==
    /\ detect_worker[t].pc = "updated"
    /\ detection' = [thread |-> t,
                     signals |-> detect_worker[t].signals,
                     before |-> detect_worker[t].before,
                     compared |-> baseline_values,
                     anomalies |-> detect_anomalies(baseline_values,
                                                    detect_worker[t].signals)]
    /\ detect_worker' = [detect_worker EXCEPT ![t] = IdleDetectWorker("get")]
    /\ UNCHANGED <<system_vars, filters, vp_vars, chunk, vlf_signals, vlf_frequency,
                   baseline_values, chunks, ap_vars, st_vars>>

\* vlf_system.py lines 192-193 and 159-165: stop_monitoring gives up its join
\* after 2 s while a worker is inside an iteration, and the next
\* start_monitoring starts another worker
restart_monitoring ==
    /\ \E t \in Threads : detect_worker[t].pc = "updated"
    /\ \E t \in Threads :
         /\ detect_worker[t].pc = "none"
         /\ \A u \in Threads : detect_worker[u].pc = "none" => t <= u
         /\ detect_worker' = [detect_worker EXCEPT ![t] = IdleDetectWorker("get")]
    /\ UNCHANGED <<system_vars, filters, vp_vars, chunk, vlf_signals, vlf_frequency,
                   baseline_values, detection, chunks, ap_vars, st_vars>>

NextDetect ==
    \/ \E t \in Threads : worker_update_baseline(t)
    \/ \E t \in Threads : worker_detect_anomalies(t)
    \/ restart_monitoring

SpecDetect == Init /\ [][NextDetect]_vars

Spec == Init /\ [][Next]_vars

\* the worker is a thread of its own: it is scheduled, get(timeout=1.0)
\* returns after a second at the latest, and the calls of an iteration return
SpecLive == Init /\ [][NextLive]_vars /\ WF_vars(Worker)

SpecReconfigure == InitReconfigure /\ [][NextReconfigure]_vars

SpecProcessor == InitProcessor /\ [][NextProcessor]_vars

SpecAudioProcessor == Init /\ [][NextAudioProcessor]_vars

SpecBaseline == InitBaseline /\ [][NextBaseline]_vars

SpecStorage == Init /\ [][NextStorage]_vars

SpecNoStations == InitNoStations /\ [][NextNoCallbacks]_vars

TypeOK ==
    /\ is_monitoring \in BOOLEAN
    /\ stream \in {"None", "open"}
    /\ pc \in {"idle"} \cup StartPcs \cup StopPcs
    /\ Len(audio_queue) <= QueueMaxSize
\* ---------------------------------------------------------------- claims
\* the last n frames captured, oldest first
LastFrames(n) == [i \in 1..n |-> next_frame - n + i]

\* C1: the queue never holds more than QueueMaxSize frames, and once more than
\* QueueMaxSize callbacks have completed with no consumer pop in between, it
\* holds exactly the last QueueMaxSize captured frames in capture order.
C1_DropOldest ==
    /\ Len(audio_queue) <= QueueMaxSize
    /\ (cb_pc = "idle" /\ run_pushes > QueueMaxSize)
           => audio_queue = LastFrames(QueueMaxSize)

\* more callbacks than the capacity have completed without a consumer pop
C1_Overflowed == cb_pc = "idle" /\ run_pushes > QueueMaxSize /\ next_frame > QueueMaxSize

\* C2: whenever _audio_callback has returned, the frame it was given is in
\* the queue it left behind.
C2_NewFrameInserted == cb_pc = "idle" => cb_inserted
\* a call of stop_monitoring returns
StopReturns == pc = "drain" /\ pc' = "idle"

\* a step during a stop_monitoring call that directly follows a stop_monitoring
\* call of the control thread
InSecondStop ==
    /\ result \in {"stop", "stop2"}
    /\ ~rollback
    /\ (pc \in StopPcs \/ pc' \in StopPcs)

\* C3: when stop_monitoring returns, is_monitoring is false and the stream is
\* None; a stop_monitoring call that directly follows another one changes
\* neither the flag, the stream, the queue, the thread reference nor the
\* streams that are open.
C3_StopIdempotent ==
    [][/\ StopReturns => (~is_monitoring' /\ stream' = "None")
       /\ InSecondStop => UNCHANGED <<is_monitoring, stream, audio_queue,
                                      processing_thread, leaked>>]_vars

\* stop_monitoring has returned twice in a row after frames were processed
C3_StoppedTwice ==
    /\ pc = "idle" /\ result = "stop2" /\ ~is_monitoring /\ stream = "None"
    /\ handed # {}

\* start_monitoring returns False from the trial read (line 147)
TrialFails == pc = "test" /\ result' = "start_false"

\* C4: a start_monitoring call that fails in the trial read leaves
\* is_monitoring false, no stream open and no worker started.
C4_TrialFailureLeavesNothing ==
    [][TrialFails => /\ ~is_monitoring /\ ~is_monitoring'
                     /\ stream' = "None"
                     /\ leaked' = leaked
                     /\ worker' = worker]_vars

\* C5: no observer reads is_monitoring as true during a start_monitoring call
\* that ends in the handler of line 173.
C5_FailedStartUnobserved == rollback => ~seen_monitoring

\* C6: is_monitoring becomes true, the callback stream is opened and a worker
\* is started only in a start_monitoring call whose trial read has succeeded.
C6_TrialReadFirst ==
    [][/\ (~is_monitoring /\ is_monitoring') => trial_ok
       /\ (stream = "None" /\ stream' = "open") => trial_ok
       /\ \A t \in Threads :
            (worker[t].pc = "none" /\ worker'[t].pc # "none") => trial_ok]_vars

\* a start_monitoring call has set the flag and started the stream and the
\* worker after its trial read
C6_StartedAfterTrial ==
    pc = "start_stream" /\ trial_ok /\ is_monitoring /\ stream = "open" /\ is_alive
\* the state of the orchestrator; a stop_monitoring call made while Stopped
\* leaves it Stopped
State ==
    IF pc \in StartPcs THEN "Starting"
    ELSE IF pc \in StopPcs
         THEN (IF rollback \/ result = "start_true" THEN "Stopping" ELSE "Stopped")
    ELSE IF is_monitoring THEN "Running"
    ELSE "Stopped"

Cycle == {<<"Stopped", "Starting">>, <<"Starting", "Running">>,
          <<"Running", "Stopping">>, <<"Stopping", "Stopped">>}

\* a start that fails in the trial read, and the rollback of a start that
\* fails later
OffCycle == {<<"Starting", "Stopped">>, <<"Starting", "Stopping">>}

\* start_monitoring returns True
StartReturnsTrue == pc = "start_stream" /\ pc' = "idle"

\* is_monitoring true, the callback stream started, the worker alive
Running == is_monitoring /\ stream = "open" /\ is_alive

CallbackEvents(log, kind) == SelectSeq(log, LAMBDA e : e.ev = kind)
AllInvoked(kind, callbacks) ==
    [i \in 1..Len(callbacks) |-> Event(kind, callbacks[i])]
HasEvent(log, ev) == \E i \in 1..Len(log) : log[i].ev = ev

\* an iteration that delivers a chunk calls every data callback, and one that
\* calls an anomaly callback calls all of them
DeliveryComplete ==
    /\ HasEvent(iter_log, "store")
           => CallbackEvents(iter_log, "data") = AllInvoked("data", data_callbacks)
    /\ HasEvent(iter_log, "anomaly")
           => CallbackEvents(iter_log, "anomaly")
                  = AllInvoked("anomaly", anomaly_callbacks)

\* C8: whichever callbacks raise, every registered callback is invoked for the
\* chunk, the worker goes on to the loop test after the iteration, and it
\* ends only when it reads is_monitoring as false.
C8_CallbackIsolation ==
    [][/\ DeliveryComplete'
       /\ \A t \in Threads :
            /\ (worker[t].pc = "run" /\ worker'[t] # worker[t])
                   => worker'[t].pc = "check"
            /\ (worker[t].pc # "none" /\ worker'[t].pc = "none")
                   => ~is_monitoring]_vars

\* the worker has taken the next frame after an iteration in which one of two
\* data callbacks raised
C8_ContinuedAfterRaise ==
    /\ cb_raised
    /\ Len(data_callbacks) = 2
    /\ CallbackEvents(iter_log, "data") = AllInvoked("data", data_callbacks)
    /\ \E t \in Threads : worker[t].pc = "run"

\* C9: when stop_monitoring has returned, every row handed to
\* store_measurement is in the database.
C9_FlushOnStop ==
    (pc = "idle" /\ result \in {"stop", "stop2"}) => handed \subseteq db

\* C10: outside stop_monitoring the database grows by whole batches of
\* storage_batch_size rows.
C10_WholeBatches ==
    [][db' # db => \/ Cardinality(db' \ db) = storage_batch_size
                   \/ pc \in StopPcs]_vars
\* C11: process_chunk returns a Signal for exactly the stations with a filter
\* whose processing did not raise, whatever the other stations did.
C11_StationIsolation ==
    /\ vlf_signals \subseteq filters
    /\ chunk.long_enough => vlf_signals = filters \ chunk.failing

\* a chunk in which a station raised and a station after it got its Signal
C11_OneStationFailed ==
    /\ chunk.long_enough
    /\ \E i, j \in DOMAIN vlf_bands :
         /\ i < j
         /\ vlf_bands[i].station \in chunk.failing
         /\ vlf_bands[j].station \in vlf_signals

\* C12: after construction a station with a band has a filter exactly when
\* 0.01 < low_norm < high_norm < 0.99.
C12_FilterIffStrictlyInside ==
    \A i \in DOMAIN vlf_bands :
        vlf_bands[i].station \in filters
            <=> /\ sample_rate < 200 * vlf_bands[i].low
                /\ vlf_bands[i].low < vlf_bands[i].high
                /\ 200 * vlf_bands[i].high < 99 * sample_rate
\* amplitudes of station s fed to update_baseline by the running system
samples_fed(s) == Cardinality({row \in handed : row[2] = s})

\* C13: a station has a baseline only once BaselineMinSamples amplitudes were
\* fed for it, and detect_anomalies has run only on stations with that many.
C13_BaselineAfterTenSamples ==
    /\ \A s \in baselines : samples_fed(s) >= BaselineMinSamples
    /\ HasEvent(iter_log, "detect")
           => \A s \in filters : samples_fed(s) >= BaselineMinSamples

\* the station a checked Signal belongs to: its key as process_audio_buffer
\* writes it, or the station numbered by a band id
station_of(band_id) ==
    IF band_id \in {stations[i] : i \in DOMAIN stations} THEN band_id
    ELSE stations[1]

\* C14: for a checked Signal of a station with an established baseline, a
\* spike is reported exactly when std > 0, |amplitude - mean| / std > 3.0 and
\* amplitude > mean, a drop exactly when std > 0, the z-score exceeds 3.0 and
\* amplitude is not above the mean; with std = 0 neither is reported.
C14_SpikeDropClassification ==
    (checked # NoSignal /\ station_of(checked.band_id) \in DOMAIN audio_baselines)
      => LET b == audio_baselines[station_of(checked.band_id)]
             a == checked.amplitude.v
             spread == b.count * b.squares - b.total * b.total
             offset == b.count * a - b.total
             exceeds == spread > 0 /\ offset * offset > 9 * spread
         IN  /\ "spike" \in reported <=> (exceeds /\ offset > 0)
             /\ "drop" \in reported <=> (exceeds /\ offset <= 0)

\* C17: a buffer's Signals carry the amplitude of the buffer with its
\* non-finite samples replaced by zero, for every station in range; no Signal
\* amplitude and no baseline-history entry is non-finite; the sanitization
\* warning was logged once if a corrupted buffer was processed, else never.
C17_CorruptionSanitized ==
    /\ audio_buffer # <<>> =>
         \A i \in DOMAIN stations :
             in_vlf_range(stations[i]) =>
                 /\ stations[i] \in DOMAIN audio_signals
                 /\ audio_signals[stations[i]] =
                        Signal_amplitude(band_amplitude(nan_to_num(audio_buffer)))
    /\ \A s \in DOMAIN audio_signals : isfinite(audio_signals[s])
    /\ \A s \in DOMAIN baseline_history :
           \A i \in DOMAIN baseline_history[s] : isfinite(baseline_history[s][i])
    /\ sanitize_warnings = (IF corrupted_buffers > 0 THEN 1 ELSE 0)

\* a second corrupted buffer was processed, one with a finite sample that
\* gives the station a non-zero amplitude
C17_SecondCorruptedBuffer ==
    /\ corrupted_buffers = 2
    /\ \E i \in DOMAIN audio_buffer : ~isfinite(audio_buffer[i])
    /\ \E s \in DOMAIN audio_signals : audio_signals[s] = Num(1)

\* the measurements of call c that a query for the station and the minutes of
\* the last get_recent_data call asks for
asked_for(c) ==
    {k \in DOMAIN calls[c].rows :
        /\ calls[c].rows[k].station_id = recent_data.station_id
        /\ calls[c].rows[k].timestamp.t > Clock - recent_data.minutes}

\* the measurements of call c among the rows get_recent_data returned
observed(c) ==
    {recent_data.rows[i].k : i \in {j \in DOMAIN recent_data.rows :
                                        recent_data.rows[j].call = c}}

\* the writers inside a write transaction
inserting == {w \in Writers : db_writer = w \/ (writers[w].pc = "insert"
                                               /\ writers[w].done > 0)}

\* C15: a reader observes all the measurements of a batch that its query asks
\* for or none of the batch; no measurement of a failed batch is persisted;
\* no two writers are inside their inserts at once.
C15_CommittedBatchesOnly ==
    /\ \A c \in DOMAIN calls :
           calls[c].op = "store_batch" =>
               /\ observed(c) = {} \/ observed(c) = asked_for(c)
               /\ calls[c].status = "failed" =>
                      \A r \in measurements : r.call # c
    /\ Cardinality(inserting) <= 1

\* a reader ran while a batch had one of its two rows inserted and not yet
\* committed, a row its query asks for, and returned rows of another batch
C15_ReadDuringBatch ==
    /\ recent_data.rows # <<>>
    /\ \E r \in recent_data.uncommitted :
           /\ r.station_id = recent_data.station_id
           /\ newer_than(r.timestamp, recent_data.minutes)
           /\ calls[r.call].op = "store_batch"
           /\ Len(calls[r.call].rows) = 2
           /\ Cardinality({q \in recent_data.uncommitted : q.call = r.call}) = 1

\* what the last get_recent_data call returned is exactly the persisted
\* measurements asked for, newest first, with the values stored
RoundTrip ==
        LET persisted == {<<c, k>> \in (DOMAIN calls) \X (1..MaxBatch) :
                             /\ k \in DOMAIN calls[c].rows
                             /\ \E r \in measurements : r.call = c /\ r.k = k}
            expected == {ck \in persisted : ck[2] \in asked_for(ck[1])}
            returned == {<<recent_data.rows[i].call, recent_data.rows[i].k>> :
                            i \in DOMAIN recent_data.rows}
        IN  /\ returned = expected
            /\ \A i \in DOMAIN recent_data.rows :
                   LET row == recent_data.rows[i]
                       stored == calls[row.call].rows[row.k]
                   IN  /\ row.timestamp = stored.timestamp
                       /\ row.station_id = stored.station_id
                       /\ row.amplitude = stored.amplitude
            /\ \A i, j \in DOMAIN recent_data.rows :
                   i < j => recent_data.rows[i].timestamp.t
                                >= recent_data.rows[j].timestamp.t

\* C16: get_recent_data returns exactly the persisted measurements of the
\* station within the last minutes, written by store_measurement or by
\* store_batch, newest first, each with the timestamp and the values stored.
C16_RoundTrip == [][recent_data' # recent_data => RoundTrip']_vars

\* C18: while is_monitoring is true no step changes the processor's bands or
\* its filters.
C18_ConfigurationImmutableWhileRunning ==
    [][is_monitoring => (vlf_bands' = vlf_bands /\ filters' = filters)]_vars

\* the place of a step in the order of an iteration, data callbacks before
\* anomaly detection
Rank(ev) ==
    CASE ev = "process" -> 1 [] ev = "baseline" -> 2 [] ev = "store" -> 3
      [] ev = "data" -> 4 [] ev = "detect" -> 5 [] ev = "anomaly" -> 6

\* the steps of the last iteration that are not callback invocations
Steps(log) == SelectSeq(log, LAMBDA e : e.ev \notin {"data", "anomaly"})

\* every registered data callback was invoked exactly once, and every
\* registered anomaly callback exactly once if the anomaly list was not empty
\* and not at all if it was
InvokedOnce(log) ==
    /\ CallbackEvents(log, "data") = AllInvoked("data", data_callbacks)
    /\ CallbackEvents(log, "anomaly") =
           IF \E i \in DOMAIN log : log[i] = Event("detect", 1)
           THEN AllInvoked("anomaly", anomaly_callbacks) ELSE <<>>

\* C19 as stated: in an iteration with a non-empty Signal mapping the steps
\* are band extraction, baseline update, hand-off, anomaly detection, and
\* only after anomaly detection any callback; callbacks are invoked once.
C19_CallbacksAfterDetection ==
    HasEvent(iter_log, "store") =>
        /\ [i \in DOMAIN Steps(iter_log) |-> Steps(iter_log)[i].ev]
               = <<"process", "baseline", "store", "detect">>
        /\ \A i, j \in DOMAIN iter_log :
               (iter_log[i].ev = "detect" /\ iter_log[j].ev \in {"data", "anomaly"})
                   => i < j
        /\ InvokedOnce(iter_log)

\* C19: in an iteration with a non-empty Signal mapping the steps are band
\* extraction, baseline update, hand-off, the data callbacks, anomaly
\* detection, and only then the anomaly callbacks; callbacks are invoked once.
C19_StepOrder ==
    HasEvent(iter_log, "store") =>
        /\ [i \in DOMAIN Steps(iter_log) |-> Steps(iter_log)[i].ev]
               = <<"process", "baseline", "store", "detect">>
        /\ \A i, j \in DOMAIN iter_log :
               i < j => Rank(iter_log[i].ev) <= Rank(iter_log[j].ev)
        /\ InvokedOnce(iter_log)

\* an iteration called a data callback, found anomalies and called an anomaly
\* callback
C19_BothCallbacksInvoked ==
    /\ HasEvent(iter_log, "data")
    /\ HasEvent(iter_log, "anomaly")

\* no worker thread is running
WorkersDone == \A t \in Threads : worker[t].pc = "none"

\* C20: a worker begins an iteration only when it has read is_monitoring as
\* true; a get that times out on the empty queue takes the worker back to the
\* loop test and does nothing else; and whenever is_monitoring is false the
\* worker has terminated, or terminates, unless a start sets the flag again.
C20_CooperativeCancellation ==
    /\ [][\A t \in Threads :
            /\ (worker[t].pc = "check" /\ worker'[t].pc = "get") => is_monitoring
            /\ (worker[t].pc = "get" /\ audio_queue = <<>>
                    /\ worker'[t] # worker[t])
                   => /\ worker'[t].pc = "check"
                      /\ UNCHANGED <<audio_queue, store_vars, ctl_vars>>]_vars
    /\ ~is_monitoring ~> (is_monitoring \/ WorkersDone)

\* stop_monitoring has cleared the flag while the worker is inside an
\* iteration
C20_StoppedInFlight ==
    /\ ~is_monitoring
    /\ pc \in StopPcs
    /\ \E t \in Threads : worker[t].pc = "run"

\* the last n elements of a sequence, all of it if it is shorter
Recent(seq, n) ==
    IF Len(seq) <= n THEN seq ELSE SubSeq(seq, Len(seq) - n + 1, Len(seq))

\* C21: a station's history is never longer than baseline_samples and is the
\* most recent finite amplitudes fed for it, in arrival order; a call with a
\* non-finite amplitude changes neither the histories nor the baselines.
C21_RingBuffer ==
    /\ [](\A s \in DOMAIN baseline_history :
              /\ Len(baseline_history[s]) <= baseline_samples
              /\ baseline_history[s] = Recent(fed[s], baseline_samples))
    /\ [][(updates' # updates /\ ~isfinite(updated'.amplitude))
              => UNCHANGED <<baseline_history, audio_baselines>>]_vars

\* the oldest amplitudes were evicted, and a non-finite amplitude was fed last
C21_EvictedOldest ==
    /\ Len(fed["NAA"]) > baseline_samples + 1
    /\ ~isfinite(updated.amplitude)

\* C22: for a checked Signal of a station with an established baseline, a
\* possible signal loss is reported exactly when the mean exceeds 0.001 and
\* the amplitude is below 0.1 times the mean, whatever the std.
C22_SignalLoss ==
    (checked # NoSignal /\ station_of(checked.band_id) \in DOMAIN audio_baselines)
      => LET b == audio_baselines[station_of(checked.band_id)]
         IN  "loss" \in reported
                 <=> /\ 1000 * b.total > b.count
                     /\ 10 * b.count * checked.amplitude.v < b.total

\* C23: an iteration in which a write failed still calls every callback and
\* returns to the loop test, and once stop_monitoring has returned and the
\* worker has ended, every record whose write failed has been written.
C23_WriteFailureRecovered ==
    /\ DeliveryComplete
    /\ (pc = "idle" /\ result \in {"stop", "stop2"} /\ WorkersDone)
           => write_failed \subseteq db

\* C24: the frequency field of every Signal process_chunk returns is the
\* dominant-frequency estimate of the chunk, not the configured frequency.
C24_ReportedFrequencyIsEstimate ==
    \A s \in DOMAIN vlf_frequency : vlf_frequency[s] = chunk.dominant

\* C25: at most one processing worker thread is alive at any time.
C25_SingleWorker ==
    Cardinality({t \in Threads : worker[t].pc # "none"}) <= 1

\* C26: every frame the worker processes was captured after all the frames
\* processed before it, so the processed frames are a subsequence of the
\* captured frames in capture order, none of them processed twice.
C26_FrameOrder ==
    [][\A t \in Threads :
          (worker[t].pc = "run" /\ worker'[t].pc # "run")
              => worker[t].frame > last_processed]_vars

\* C27: when stop_monitoring has returned the queue is empty, the stream is
\* None and is_monitoring is false, and the queue stays empty until the next
\* start; no frame captured before a stop is processed after a later start.
C27_StopLeavesNothing ==
    /\ []((pc = "idle" /\ result \in {"stop", "stop2"})
             => (audio_queue = <<>> /\ stream = "None" /\ ~is_monitoring))
    /\ [][\A t \in Threads :
             (worker[t].pc = "run" /\ worker'[t].pc # "run"
                 /\ (is_monitoring \/ pc \in StartPcs))
                 => worker[t].frame \notin held_over]_vars

\* the part of C27 about the state stop_monitoring leaves
C27_StateAtReturn ==
    (pc = "idle" /\ result \in {"stop", "stop2"})
        => (audio_queue = <<>> /\ stream = "None" /\ ~is_monitoring)

\* C30: update_baseline runs before detect_anomalies on the same chunk: the
\* first Signal of a station is compared with a baseline that is exactly its
\* amplitude and reports no anomaly, and a later Signal is compared with the
\* previous baseline averaged with it at weight 0.1.
C30_BaselineBeforeDetection ==
    \A s \in DOMAIN detection.signals :
        IF s \notin DOMAIN detection.before
        THEN /\ SameLevel(detection.compared[s], Level(detection.signals[s]))
             /\ \A a \in detection.anomalies : a[1] # s
        ELSE SameLevel(detection.compared[s],
                       ema(detection.before[s], detection.signals[s]))

\* C29: an iteration whose process_chunk returned an empty mapping changes
\* neither the baselines nor the storage and invokes no data or anomaly
\* callback.
C29_EmptyExtractionNoEffect ==
    [][\A t \in Threads :
          (worker[t].pc = "run" /\ worker'[t].pc # "run" /\ process_chunk(filters) = {})
              => /\ UNCHANGED <<baselines, db, handed, write_failed>>
                 /\ \A i \in DOMAIN iter_log' : iter_log'[i].ev \notin {"data", "anomaly"}]_vars

\* a chunk without Signals was processed while callbacks were registered and a
\* baseline existed
C29_EmptyChunkProcessed ==
    /\ iter_log = <<Event("process", 0)>>
    /\ filters = {}
    /\ data_callbacks # <<>>
    /\ baselines # {}

\* C28: start_monitoring called while is_monitoring is true returns True and
\* changes nothing: the call does not go on to the trial read, the stream,
\* the worker, the queue, the baselines and the callbacks stay as they are.
C28_StartWhileMonitoring ==
    [][(is_monitoring /\ start_monitoring)
          => /\ result' = "start_true"
             /\ UNCHANGED <<pc, is_monitoring, stream, processing_thread, leaked,
                            worker, audio_queue, baselines, db, data_callbacks,
                            anomaly_callbacks, filters>>]_vars

\* monitoring runs with a worker alive, a frame queued, a baseline and a
\* callback: the state a start call made now has to leave alone
C28_MonitoringUndisturbed ==
    /\ is_monitoring
    /\ pc = "idle"
    /\ result = "start_true"
    /\ stream = "open"
    /\ audio_queue # <<>>
    /\ baselines # {}
    /\ data_callbacks # <<>>
    /\ \E t \in Threads : worker[t].pc # "none"
====
